---- MODULE Spec2Model ----
(***************************************************************************)
(* Model of the Contact form section (src/components/sections/Contact.tsx).*)
(* The source file holds two variants of the same React component:         *)
(*   "staged" (lines 1-453):   attachments are staged only; success is     *)
(*                             decided by data.success of the JSON body;   *)
(*   "upload" (lines 454-967): attachments are appended to the request;    *)
(*                             success is decided by response.ok.          *)
(* Strings are sequences of one-character strings, so that trim, length    *)
(* and the e-mail format are computed and not assumed.                     *)
(***************************************************************************)
EXTENDS Integers, Sequences, FiniteSets, TLC

VARIABLES
    variant,        \* which of the two components of the file is mounted
    fields,         \* DOM state of the (uncontrolled) form inputs, by name
    errors,         \* useState errors: field name -> message
    isSubmitting,   \* useState isSubmitting
    uploadedFiles,  \* useState uploadedFiles: sequence of files
    requests,       \* fetch calls awaiting their response: sequence of bodies
    toasts,         \* toast() calls made by the latest handler step
    objectURLs,     \* files with an object URL created and not revoked
    last            \* the latest handler step: its name and its input, and
                    \* for the settling of a response the request answered

vars == <<variant, fields, errors, isSubmitting, uploadedFiles, requests, toasts,
          objectURLs, last>>

----------------------------------------------------------------------------
(* Bounds of the model *)

MaxFiles == 2       \* staged files kept
MaxSelect == 2      \* files in one selection of the file input

----------------------------------------------------------------------------
(* Strings *)

Rep(c, n) == [i \in 1..n |-> c]

IsSpace(c) == c = " "

\* a schema without .trim()
Trim_None(s) == s

\* String.prototype.trim, as z.string().trim() applies it
Trim(s) ==
    LET keep == {i \in 1..Len(s) : ~IsSpace(s[i])}
    IN  IF keep = {} THEN <<>>
        ELSE LET lo == CHOOSE i \in keep : \A j \in keep : i <= j
                 hi == CHOOSE i \in keep : \A j \in keep : j <= i
             IN  SubSeq(s, lo, hi)


\* z.string().email(): local part and dotted domain with a top level label of
\* two or more characters
IsEmail(s) ==
    LET ats == {i \in 1..Len(s) : s[i] = "@"}
    IN  /\ Cardinality(ats) = 1
        /\ \A i \in 1..Len(s) : ~IsSpace(s[i])
        /\ LET at == CHOOSE i \in ats : TRUE
               dots == {i \in (at + 1)..Len(s) : s[i] = "."}
           IN  /\ at > 1
               /\ s[1] # "."
               /\ s[at - 1] # "."
               /\ \A i \in 1..(Len(s) - 1) : ~(s[i] = "." /\ s[i + 1] = ".")
               /\ dots # {}
               /\ at + 1 <= Len(s)
               /\ s[at + 1] # "."
               /\ \A d \in dots : d + 2 <= Len(s)

----------------------------------------------------------------------------
(* contactSchema *)

Required == <<"name", "email", "phone", "car_make_model", "year", "mileage">>

RequiredNames == {Required[i] : i \in 1..Len(Required)}

\* the inputs of the form that the schema does not cover; the free text area
\* is named additional_info in the first component and message in the second
Optional(v) ==
    {"fuel_type", "transmission", "engine_size", "engine_power",
     IF v = "staged" THEN "additional_info" ELSE "message"}

FieldNames(v) == RequiredNames \cup Optional(v)

NameMin == 2
NameMax == 100
PhoneMin == 6
CarMin == 2
YearMin == 4
MileageMin == 1

NoIssue == "(none)"

\* the checks of one key of contactSchema on the raw value of that key:
\* the value is trimmed, then measured. The result is the issue's message.
FieldIssue(f, raw) ==
    LET v == Trim(raw)
    IN  CASE f = "name" ->
                 IF Len(v) < NameMin THEN "Ime mora imati najmanje 2 znaka"
                 ELSE IF Len(v) > NameMax THEN "Ime moze imati najvise 100 znakova"
                 ELSE NoIssue
          [] f = "email" ->
                 IF IsEmail(v) THEN NoIssue ELSE "Neispravna email adresa"
          [] f = "phone" ->
                 IF Len(v) < PhoneMin
                 THEN "Broj telefona mora imati najmanje 6 znamenki" ELSE NoIssue
          [] f = "car_make_model" ->
                 IF Len(v) < CarMin THEN "Unesite marku i model" ELSE NoIssue
          [] f = "year" ->
                 IF Len(v) < YearMin THEN "Unesite godinu (npr. 2020)" ELSE NoIssue
          [] f = "mileage" ->
                 IF Len(v) < MileageMin THEN "Unesite kilometrazu" ELSE NoIssue

\* contactSchema.safeParse(formValues): the keys of the object are parsed in
\* the order of the schema and every issue is kept; the result is the
\* sequence of issues [path, message].
RECURSIVE ParseKeys(_, _)
ParseKeys(keys, formValues) ==
    IF keys = <<>> THEN <<>>
    ELSE LET f == Head(keys)
             m == FieldIssue(f, formValues[f])
             rest == ParseKeys(Tail(keys), formValues)
         IN  IF m = NoIssue THEN rest
             ELSE <<[path |-> f, message |-> m]>> \o rest

\* a parse that gives up at the first key with an issue
RECURSIVE ParseKeys_FirstOnly(_, _)
ParseKeys_FirstOnly(keys, formValues) ==
    IF keys = <<>> THEN <<>>
    ELSE LET f == Head(keys)
             m == FieldIssue(f, formValues[f])
         IN  IF m = NoIssue THEN ParseKeys_FirstOnly(Tail(keys), formValues)
             ELSE <<[path |-> f, message |-> m]>>

SafeParse_FirstOnly(formValues) == ParseKeys_FirstOnly(Required, formValues)

SafeParse(formValues) == ParseKeys(Required, formValues)

\* formValues of handleSubmit: the six keys read from the FormData
FormValues(formData) == [f \in RequiredNames |-> formData[f]]

\* newErrors of handleSubmit: issues.forEach(err => newErrors[path] = message),
\* a later issue of the same path overwriting an earlier one
NewErrors(issues) ==
    LET paths == {issues[i].path : i \in 1..Len(issues)}
        lastOf(p) == CHOOSE i \in 1..Len(issues) :
                        /\ issues[i].path = p
                        /\ \A j \in 1..Len(issues) : issues[j].path = p => j <= i
    IN  [p \in paths |-> issues[lastOf(p)].message]

NoErrors == [p \in {} |-> ""]

----------------------------------------------------------------------------
(* Files and notifications *)

MB == 1024 * 1024

\* files the user can pick: 9MB, exactly 10MB, one byte more than 10MB
File == {"a.jpg", "b.jpg", "c.jpg"}

FileSize(file) ==
    CASE file = "a.jpg" -> 9 * MB
      [] file = "b.jpg" -> 10 * MB
      [] file = "c.jpg" -> 10 * MB + 1

\* the test of the filter of handleFileChange
TooLarge_AtLimit(file) == FileSize(file) >= 10 * 1024 * 1024

TooLarge_OverEleven(file) == FileSize(file) > 11 * 1024 * 1024

TooLarge(file) == FileSize(file) > 10 * 1024 * 1024

\* the four toast() calls of the component
FileToast(file) ==
    [variant |-> "destructive", title |-> "Greska",
     description |-> <<"Slika", file, "je prevelika. Maksimalna velicina je 10MB.">>]

ValidationToast ==
    [variant |-> "destructive", title |-> "Greska u formi",
     description |-> <<"Molimo ispravite oznacena polja prije slanja.">>]

SuccessToast ==
    [variant |-> "default", title |-> "Poruka uspjesno poslana!",
     description |-> <<"Primili ste potvrdu na vasu email adresu. Javit cemo vam se uskoro.">>]

FailureToast ==
    [variant |-> "destructive", title |-> "Greska pri slanju",
     description |-> <<"Molimo pokusajte ponovno ili nas nazovite direktno.">>]

\* files.filter(...) of handleFileChange, with the toasts it makes on the way
RECURSIVE FilterFiles(_)
FilterFiles(files) ==
    IF files = <<>> THEN [valid |-> <<>>, toasts |-> <<>>]
    ELSE LET rest == FilterFiles(Tail(files))
             file == Head(files)
         IN  IF TooLarge(file)
             THEN [valid |-> rest.valid, toasts |-> <<FileToast(file)>> \o rest.toasts]
             ELSE [valid |-> <<file>> \o rest.valid, toasts |-> rest.toasts]

\* prev.filter((_, i) => i !== index), positions counted from 0
WithoutIndex_OneBased(prev, index) ==
    LET keep == {i \in 1..Len(prev) : i # index}
        pos(k) == CHOOSE i \in keep : Cardinality({j \in keep : j < i}) = k - 1
    IN  [k \in 1..Cardinality(keep) |-> prev[pos(k)]]

\* a removal by value: every element equal to the one at position index goes
WithoutIndex_ByValue(prev, index) ==
    IF index >= 0 /\ index < Len(prev)
    THEN SelectSeq(prev, LAMBDA file : file # prev[index + 1])
    ELSE prev

WithoutIndex(prev, index) ==
    LET keep == {i \in 1..Len(prev) : i - 1 # index}
        pos(k) == CHOOSE i \in keep : Cardinality({j \in keep : j < i}) = k - 1
    IN  [k \in 1..Cardinality(keep) |-> prev[pos(k)]]

----------------------------------------------------------------------------
(* The form *)

\* what the user can have typed into the form: every input named by the
\* component, the optional ones all holding the same text
Form(v, name, email, phone, car, year, mileage, opt) ==
    [f \in FieldNames(v) |->
        CASE f = "name" -> name
          [] f = "email" -> email
          [] f = "phone" -> phone
          [] f = "car_make_model" -> car
          [] f = "year" -> year
          [] f = "mileage" -> mileage
          [] OTHER -> opt]

\* the form as rendered, and as form.reset() leaves it
EmptyForm(v) == [f \in FieldNames(v) |-> <<>>]

Valid_Email == <<"a", "@", "b", ".", "c", "o">>
Valid_Phone == <<"1", "2", "3", "4", "5", "6">>
Valid_Year == <<"2", "0", "1", "5">>

\* the forms the user fills in, in the component's own run
Forms(v) ==
    { EmptyForm(v),
      Form(v, <<"a", "b">>, Valid_Email, Valid_Phone, <<"V", "W">>, Valid_Year, <<"1">>, <<>>),
      Form(v, <<" ">> \o Rep("a", 100) \o <<" ">>, <<" ">> \o Valid_Email,
           Valid_Phone \o <<" ">>, <<"V", "W">>, Valid_Year, <<" ", "1">>, <<"x">>),
      Form(v, <<" ", "a", " ">>, <<"a", "@", "b">>, <<"1", "2", "3", "4", "5", " ">>,
           <<"V", "W">>, Valid_Year, <<" ">>, <<"x">>) }

----------------------------------------------------------------------------
(* The endpoint *)

\* what the awaited fetch can do: reject (transport error), or resolve with
\* a response of some status and some body
Body == {"success_true", "success_false", "no_success", "not_json"}

Response ==
    [kind : {"response"}, ok : BOOLEAN, body : Body]
        \cup {[kind |-> "rejected", ok |-> FALSE, body |-> "not_json"]}

\* whether the code after the await reaches the branch of its if: the first
\* component parses the body and reads data.success, the second reads
\* response.ok and never reads the body
TakesSuccessBranch_NoCheck(v, resp) == resp.kind = "response"

TakesSuccessBranch(v, resp) ==
    /\ resp.kind = "response"
    /\ IF v = "staged" THEN resp.body = "success_true" ELSE resp.ok

\* the value thrown into the catch block when the success branch is not
\* taken: the rejection of fetch, the failure of response.json() (first
\* component only), or the Error thrown in the else branch, which in the
\* first component carries data.message when the body has one
ThrownError(v, resp) ==
    CASE resp.kind = "rejected" -> <<"TypeError", "Failed to fetch">>
      [] resp.kind = "response" /\ v = "staged" /\ resp.body = "not_json" ->
             <<"SyntaxError", "Unexpected token">>
      [] resp.kind = "response" /\ v = "staged" /\ resp.body = "success_false" ->
             <<"Error", "message of the endpoint">>
      [] OTHER -> <<"Error", "Submission failed">>

\* the value thrown by e.currentTarget.reset() when e.currentTarget is null
ResetError == <<"TypeError", "Cannot read properties of null">>

\* e.currentTarget of the React event of handleSubmit. React sets it for the
\* time the listener runs and sets it back to null when the listener returns,
\* which an async listener does at its first await.
CurrentTarget_Kept(dispatching) == "form"

CurrentTarget(dispatching) == IF dispatching THEN "form" ELSE "null"

----------------------------------------------------------------------------
(* State *)

TypeOK ==
    /\ variant \in {"staged", "upload"}
    /\ fields \in Forms(variant)
    /\ DOMAIN errors \subseteq RequiredNames
    /\ isSubmitting \in BOOLEAN
    /\ uploadedFiles \in Seq(File)
    /\ \A i \in 1..Len(requests) :
          /\ requests[i].body \in Forms(variant)
          /\ \A k \in 1..Len(requests[i].attachments) :
                requests[i].attachments[k].file \in File
    /\ objectURLs \subseteq File
    /\ last.op \in {"mount", "type", "fileChange", "removeFile", "submit", "settle"}

Init ==
    /\ variant \in {"staged", "upload"}
    /\ fields = EmptyForm(variant)
    /\ errors = NoErrors
    /\ isSubmitting = FALSE
    /\ uploadedFiles = <<>>
    /\ requests = <<>>
    /\ toasts = <<>>
    /\ objectURLs = {}
    /\ last = [op |-> "mount", arg |-> "-"]

\* the render that follows a handler step: the preview of every staged file
\* is given a new URL.createObjectURL(file); nothing in the component calls
\* URL.revokeObjectURL, so no URL is ever released
Rendered == objectURLs' = objectURLs \cup {uploadedFiles'[k] : k \in 1..Len(uploadedFiles')}

\* the user edits the inputs of the form (they are uncontrolled and are never
\* disabled): no handler of the component runs
TypeIntoForm(form) ==
    /\ form # fields
    /\ fields' = form
    /\ toasts' = <<>>
    /\ last' = [op |-> "type", arg |-> "-"]
    /\ UNCHANGED <<variant, errors, isSubmitting, uploadedFiles, requests, objectURLs>>

\* the files of one change event of the file input: distinct files, in order
Selections ==
    {files \in UNION {[1..n -> File] : n \in 0..MaxSelect} :
        \A i, j \in 1..Len(files) : i # j => files[i] # files[j]}

HandleFileChange(files) ==
    LET r == FilterFiles(files)
    IN  /\ Len(uploadedFiles) + Len(r.valid) <= MaxFiles
        /\ uploadedFiles' = uploadedFiles \o r.valid
        /\ toasts' = r.toasts
        /\ last' = [op |-> "fileChange", arg |-> files]
        /\ Rendered
        /\ UNCHANGED <<variant, fields, errors, isSubmitting, requests>>

RemoveFile(index) ==
    /\ uploadedFiles' = WithoutIndex(uploadedFiles, index)
    /\ toasts' = <<>>
    /\ last' = [op |-> "removeFile", arg |-> index]
    /\ Rendered
    /\ UNCHANGED <<variant, fields, errors, isSubmitting, requests>>

\* the submit button is disabled={isSubmitting}; a disabled default button
\* also blocks the implicit submission of the form
SubmitEnabled_Always == TRUE

SubmitEnabled == ~isSubmitting

\* entries appended with names counted from 1
Attachments_OneBased(files) ==
    [k \in 1..Len(files) |-> [name |-> <<"attachment_", k>>, file |-> files[k]]]

\* uploadedFiles.forEach((file, index) => formData.append(`attachment_${index}`,
\* file)): the entries appended to the FormData, in order, index from 0
Attachments(files) ==
    [k \in 1..Len(files) |-> [name |-> <<"attachment_", k - 1>>, file |-> files[k]]]

\* the body of the fetch: the FormData of the form, and in the second
\* component the staged files appended as attachment_0, attachment_1, ...
RequestOf(formData) ==
    [body |-> formData,
     attachments |-> IF variant = "upload" THEN Attachments(uploadedFiles) ELSE <<>>]

\* the validation failure path without its return
ValidationFailed_FallsThrough(issues) ==
    /\ errors' = NewErrors(issues)
    /\ toasts' = <<ValidationToast>>
    /\ isSubmitting' = TRUE
    /\ requests' = Append(requests, RequestOf(fields))

\* handleSubmit, validation failed: lines 66-81
ValidationFailed(issues) ==
    /\ errors' = NewErrors(issues)
    /\ toasts' = <<ValidationToast>>
    /\ isSubmitting' = FALSE
    /\ UNCHANGED requests

\* a submit that leaves the error map as it was
SendRequest_KeepsErrors(formData) ==
    /\ errors' = errors
    /\ isSubmitting' = TRUE
    /\ requests' = Append(requests, RequestOf(formData))
    /\ toasts' = <<>>

\* a submit that calls fetch twice
SendRequest_Twice(formData) ==
    /\ errors' = NoErrors
    /\ isSubmitting' = TRUE
    /\ requests' = requests \o <<RequestOf(formData), RequestOf(formData)>>
    /\ toasts' = <<>>

\* a submit that sends the request without raising the in-flight flag
SendRequest_NoFlag(formData) ==
    /\ errors' = NoErrors
    /\ isSubmitting' = FALSE
    /\ requests' = Append(requests, RequestOf(formData))
    /\ toasts' = <<>>

\* handleSubmit, validation passed: up to the await of fetch
SendRequest(formData) ==
    /\ errors' = NoErrors
    /\ isSubmitting' = TRUE
    /\ requests' = Append(requests, RequestOf(formData))
    /\ toasts' = <<>>

\* handleSubmit up to its first suspension
HandleSubmit ==
    /\ SubmitEnabled
    /\ LET formData == fields
           issues == SafeParse(FormValues(formData))
       IN  IF issues # <<>> THEN ValidationFailed(issues) ELSE SendRequest(formData)
    /\ last' = [op |-> "submit", arg |-> "-"]
    /\ UNCHANGED <<variant, fields, uploadedFiles>>
    /\ Rendered

\* the finally block
Finally_Missing == isSubmitting' = isSubmitting

Finally == isSubmitting' = FALSE

\* a toast of the catch block that shows the error it caught
CatchToast_Raw(error) ==
    [variant |-> "destructive", title |-> "Greska pri slanju", description |-> error]

\* the toast of the catch block: its arguments are literals, the error
\* caught is not among them
CatchToast(error) == FailureToast

\* the catch block, entered with the error thrown, after the toasts ts
\* already made in the try block
Catch_ClearsFiles(ts, error) ==
    /\ toasts' = ts \o <<CatchToast(error)>>
    /\ uploadedFiles' = <<>>
    /\ UNCHANGED <<fields, errors>>

Catch(ts, error) ==
    /\ toasts' = ts \o <<CatchToast(error)>>
    /\ UNCHANGED <<fields, uploadedFiles, errors>>

\* a success branch that runs to its end
SuccessBranch_Clears ==
    /\ toasts' = <<SuccessToast>>
    /\ fields' = EmptyForm(variant)
    /\ uploadedFiles' = <<>>
    /\ errors' = NoErrors

\* the branch of a response taken for a success: the toast, then
\* e.currentTarget.reset(), which throws when e.currentTarget is null
SuccessBranch ==
    IF CurrentTarget(FALSE) = "null"
    THEN Catch(<<SuccessToast>>, ResetError)
    ELSE /\ toasts' = <<SuccessToast>>
         /\ fields' = EmptyForm(variant)
         /\ uploadedFiles' = <<>>
         /\ errors' = NoErrors

\* handleSubmit from the await of fetch to its end, for the i-th request
FetchSettles(i, resp) ==
    /\ i \in 1..Len(requests)
    /\ requests' = [k \in 1..(Len(requests) - 1) |->
                        IF k < i THEN requests[k] ELSE requests[k + 1]]
    /\ IF TakesSuccessBranch(variant, resp) THEN SuccessBranch
       ELSE Catch(<<>>, ThrownError(variant, resp))
    /\ Finally
    /\ last' = [op |-> "settle", arg |-> resp, sent |-> requests[i]]
    /\ Rendered
    /\ UNCHANGED variant

Next ==
    \/ \E form \in Forms(variant) : TypeIntoForm(form)
    \/ \E files \in Selections : HandleFileChange(files)
    \/ \E index \in -1..MaxFiles : RemoveFile(index)
    \/ HandleSubmit
    \/ \E i \in 1..Len(requests), resp \in Response : FetchSettles(i, resp)

Spec == Init /\ [][Next]_vars

\* every outstanding fetch settles: it resolves or it rejects
FairSpec == Spec /\ WF_vars(\E i \in 1..Len(requests), resp \in Response : FetchSettles(i, resp))

----------------------------------------------------------------------------
(* Validation on its own: handleSubmit run once on every combination of   *)
(* values of the inputs                                                    *)

Samples(f) ==
    CASE f = "name" -> {<<>>, <<" ", "a", " ">>, <<"a", "b">>, Rep("a", 100),
                        Rep("a", 101), <<" ">> \o Rep("a", 100) \o <<" ">>}
      [] f = "email" -> {<<>>, <<"a", "@", "b">>, Valid_Email,
                         <<" ">> \o Valid_Email \o <<" ">>}
      [] f = "phone" -> {<<>>, <<"1", "2", "3", "4", "5", " ">>, Valid_Phone}
      [] f = "car_make_model" -> {<<>>, <<"V", " ">>, <<"V", "W">>}
      [] f = "year" -> {<<>>, <<"2", "0", "1", " ">>, Valid_Year}
      [] f = "mileage" -> {<<>>, <<" ">>, <<"1">>}
      [] OTHER -> {<<>>, <<"x">>}

AllForms(v) ==
    {Form(v, n, e, p, c, y, m, o) :
        n \in Samples("name"), e \in Samples("email"), p \in Samples("phone"),
        c \in Samples("car_make_model"), y \in Samples("year"),
        m \in Samples("mileage"), o \in Samples("fuel_type")}

ValidationInit ==
    /\ variant \in {"staged", "upload"}
    /\ fields \in AllForms(variant)
    /\ errors = NoErrors
    /\ isSubmitting = FALSE
    /\ uploadedFiles = <<>>
    /\ requests = <<>>
    /\ toasts = <<>>
    /\ objectURLs = {}
    /\ last = [op |-> "mount", arg |-> "-"]

ValidationNext == HandleSubmit

ValidationSpec == ValidationInit /\ [][ValidationNext]_vars

----------------------------------------------------------------------------
(* Properties *)

\* a handler step of handleSubmit has just ended the invocation
SubmitEnded ==
    \/ last.op = "settle"
    \/ last.op = "submit" /\ toasts = <<ValidationToast>>

\* C1: every invocation of handleSubmit ends with isSubmitting false, on
\* every exit path, and, the fetch settling, isSubmitting = TRUE leads to
\* isSubmitting = FALSE.
C1_FlagCleared ==
    /\ [](SubmitEnded => ~isSubmitting)
    /\ (isSubmitting ~> ~isSubmitting)

C1_Witness ==
    /\ last.op = "settle"
    /\ last.arg.kind = "rejected"
    /\ ~isSubmitting

\* C2: at most one request of a form instance is outstanding at any time.
C2_OneInFlight == Len(requests) <= 1

C2_Witness == Len(requests) = 1 /\ isSubmitting /\ last.op # "submit"

\* the endpoint reports success: a 2xx response whose JSON body has a true
\* success indicator
ReportsSuccess(resp) ==
    resp.kind = "response" /\ resp.ok /\ resp.body = "success_true"

\* the endpoint fails: transport error, non-2xx status, or any other body
ReportsFailure(resp) ==
    resp.kind = "rejected" \/ ~resp.ok \/ resp.body # "success_true"

\* C3 (as claimed): after a submit with valid fields that the endpoint
\* reports as a success, the fields are reset, the staged list is empty and
\* the error map is empty.
C3_ResetOnSuccess ==
    (last.op = "settle" /\ ReportsSuccess(last.arg)) =>
        /\ fields = EmptyForm(variant)
        /\ uploadedFiles = <<>>
        /\ errors = NoErrors

\* C4: on every error path of handleSubmit (validation failure, failure
\* response, transport error) the step of the handler leaves the fields and
\* the staged files as they were and ends with isSubmitting false.
C4_ErrorPathsPreserve ==
    [][ ( \/ last'.op = "submit" /\ toasts' = <<ValidationToast>>
          \/ last'.op = "settle" /\ ReportsFailure(last'.arg) )
        => /\ fields' = fields
           /\ uploadedFiles' = uploadedFiles
           /\ ~isSubmitting' ]_vars

C4_Witness ==
    /\ last.op = "settle"
    /\ last.arg.kind = "response"
    /\ ~last.arg.ok
    /\ uploadedFiles # <<>>
    /\ fields # EmptyForm(variant)
    /\ ~isSubmitting

\* C5 (as claimed): a response without a true success indicator, a non-2xx
\* response, or a transport error yields Failure: the failure notification
\* alone is shown.
C5_FailureUnlessIndicator ==
    (last.op = "settle" /\ ReportsFailure(last.arg)) => toasts = <<FailureToast>>

\* every required value of the form passes its checks
AllValid(form) == \A f \in RequiredNames : FieldIssue(f, form[f]) = NoIssue

\* C6: no request is sent by a submit whose validation failed: every request
\* outstanding carries values that pass validation, and a submit that ended
\* in the validation notification has left no request behind.
C6_NoRequestWhenInvalid ==
    /\ \A i \in 1..Len(requests) : AllValid(requests[i].body)
    /\ (last.op = "submit" /\ toasts = <<ValidationToast>>) => requests = <<>>

C6_Witness ==
    /\ last.op = "submit"
    /\ ~AllValid(fields)
    /\ errors # NoErrors
    /\ requests = <<>>

\* C7: validation collects the errors of all fields in one pass: after a
\* submit the error map has a non-empty message for exactly the required
\* fields whose value fails its checks, and no other key.
C7_AllErrorsCollected ==
    last.op = "submit" =>
        /\ DOMAIN errors = {f \in RequiredNames : FieldIssue(f, fields[f]) # NoIssue}
        /\ \A f \in DOMAIN errors : errors[f] # "" /\ errors[f] # NoIssue

C7_Witness ==
    /\ last.op = "submit"
    /\ DOMAIN errors = {"name", "phone", "mileage"}

\* the rule stated for a required field, on a value v
MeetsRule(f, v) ==
    CASE f = "name" -> Len(v) >= 2 /\ Len(v) <= 100
      [] f = "email" -> IsEmail(v)
      [] f = "phone" -> Len(v) >= 6
      [] f = "car_make_model" -> Len(v) >= 2
      [] f = "year" -> Len(v) >= 4
      [] f = "mileage" -> Len(v) >= 1

\* s without its leading and trailing spaces: the part t of s that neither
\* starts nor ends with a space and has only spaces around it
Stripped(s) ==
    LET parts == {<<i, j>> \in (1..(Len(s) + 1)) \X (0..Len(s)) :
                    /\ j >= i - 1
                    /\ \A k \in 1..(i - 1) : s[k] = " "
                    /\ \A k \in (j + 1)..Len(s) : s[k] = " "
                    /\ j >= i => (s[i] # " " /\ s[j] # " ")}
        p == CHOOSE q \in parts : \A r \in parts : q[2] - q[1] <= r[2] - r[1]
    IN  SubSeq(s, p[1], p[2])

\* C8 (as claimed): a value is accepted exactly when the value as entered
\* meets its rule.
C8_RuleOnValueAsEntered ==
    last.op = "submit" =>
        \A f \in RequiredNames : (f \notin DOMAIN errors) <=> MeetsRule(f, fields[f])

\* C8 (amended): a value is accepted exactly when the value without its
\* leading and trailing whitespace meets its rule; the optional fields never
\* cause a validation error.
C8_RuleOnTrimmedValue ==
    last.op = "submit" =>
        /\ \A f \in RequiredNames :
              (f \notin DOMAIN errors) <=> MeetsRule(f, Stripped(fields[f]))
        /\ DOMAIN errors \subseteq RequiredNames

C8_Witness ==
    /\ last.op = "submit"
    /\ fields["name"] = <<" ", "a", " ">>
    /\ fields["phone"] = Valid_Phone
    /\ fields["fuel_type"] = <<"x">>
    /\ DOMAIN errors = {"name"}

\* C9: a selection of N files of which K are larger than 10MB grows the
\* staged list by N - K, makes K rejection notifications, and appends the
\* accepted files in selection order after the files already staged; a file
\* of exactly 10MB is accepted.
C9_FileChange ==
    [][ last'.op = "fileChange" =>
          LET files == last'.arg
              accepted == SelectSeq(files, LAMBDA file : FileSize(file) <= 10 * MB)
              K == Len(files) - Len(accepted)
          IN  /\ Len(uploadedFiles') = Len(uploadedFiles) + Len(files) - K
              /\ Len(toasts') = K
              /\ \A i \in 1..K : toasts'[i].variant = "destructive"
              /\ uploadedFiles' = uploadedFiles \o accepted ]_vars

C9_Witness ==
    /\ last.op = "fileChange"
    /\ last.arg = <<"c.jpg", "b.jpg">>
    /\ uploadedFiles = <<"a.jpg", "b.jpg">>
    /\ Len(toasts) = 1

\* C10: removeFile(index) removes the one element at position index and
\* keeps the others in order; an index out of range changes nothing.
C10_RemoveFile ==
    [][ last'.op = "removeFile" =>
          LET index == last'.arg
              n == Len(uploadedFiles)
          IN  IF index >= 0 /\ index < n
              THEN uploadedFiles' =
                       SubSeq(uploadedFiles, 1, index) \o SubSeq(uploadedFiles, index + 2, n)
              ELSE uploadedFiles' = uploadedFiles ]_vars

C10_Witness ==
    /\ last.op = "removeFile"
    /\ last.arg = 0
    /\ uploadedFiles = <<"b.jpg">>

\* how many times file occurs in the sequence files
Occurrences(file, files) == Cardinality({k \in 1..Len(files) : files[k] = file})

\* a removeFile step with its index in range
RemovesInRange ==
    /\ last'.op = "removeFile"
    /\ last'.arg >= 0
    /\ last'.arg < Len(uploadedFiles)

\* C11 (as claimed): after removeFile(i) with i in range the staged list does
\* not contain the file that was at position i, also when that file was
\* staged more than once.
C11_RemovedFileAbsent ==
    [][ RemovesInRange =>
          \A k \in 1..Len(uploadedFiles') :
              uploadedFiles'[k] # uploadedFiles[last'.arg + 1] ]_vars

\* C11 (amended): after removeFile(i) with i in range the file that was at
\* position i is staged one time less (so not at all when it was staged
\* once), and the other files are staged as before, in the same order.
C11_OneOccurrenceRemoved ==
    [][ RemovesInRange =>
          LET removed == uploadedFiles[last'.arg + 1]
              others(files) == SelectSeq(files, LAMBDA file : file # removed)
          IN  /\ Occurrences(removed, uploadedFiles') =
                     Occurrences(removed, uploadedFiles) - 1
              /\ others(uploadedFiles') = others(uploadedFiles) ]_vars

C11_Witness ==
    /\ last.op = "removeFile"
    /\ last.arg = 1
    /\ uploadedFiles = <<"a.jpg">>

\* C12 (as claimed): every submit attempt makes exactly one notification,
\* destructive when it ended in a validation failure or a submission failure
\* and normal when it succeeded; a submission that the endpoint reported as a
\* success makes no failure notification; a file selection makes one
\* notification per oversized file.
C12_OneNotificationPerJuncture ==
    /\ SubmitEnded =>
          /\ Len(toasts) = 1
          /\ IF last.op = "settle" /\ ReportsSuccess(last.arg)
             THEN toasts[1].variant = "default"
             ELSE toasts[1].variant = "destructive"
    /\ last.op = "fileChange" =>
          Len(toasts) = Cardinality({k \in 1..Len(last.arg) :
                                        FileSize(last.arg[k]) > 10 * MB})

\* C13 (as claimed): no object URL is left unreleased for a file that is no
\* longer staged.
C13_PreviewsReleased ==
    objectURLs \subseteq {uploadedFiles[k] : k \in 1..Len(uploadedFiles)}

\* C14: in every reachable state no staged file is larger than 10MB.
C14_NoOversizedStaged ==
    \A k \in 1..Len(uploadedFiles) : FileSize(uploadedFiles[k]) <= 10 * MB

C14_Witness ==
    /\ last.op = "fileChange"
    /\ last.arg = <<"c.jpg", "b.jpg">>
    /\ uploadedFiles = <<"a.jpg", "b.jpg">>

\* C15: the staged files change only in a step of handleFileChange or of
\* removeFile; typing, and every step of handleSubmit, leaves them unchanged.
C15_OnlyAddAndRemove ==
    [][ uploadedFiles' # uploadedFiles => last'.op \in {"fileChange", "removeFile"} ]_vars

C15_Witness ==
    /\ last.op = "settle"
    /\ ReportsSuccess(last.arg)
    /\ uploadedFiles # <<>>

\* the error map that the rules of the schema give for the values of a form
ExpectedErrors(form) ==
    [f \in {g \in RequiredNames : FieldIssue(g, form[g]) # NoIssue} |->
        FieldIssue(f, form[f])]

\* C16: while a request is outstanding the error map is empty; the error map
\* changes only in a submit step, which sets it to the errors of the values
\* submitted in that step (empty when they are all valid), so a non-empty
\* error map is always the one of the most recent submit attempt.
C16_ErrorsOfLatestAttempt ==
    /\ [](requests # <<>> => errors = NoErrors)
    /\ [][ IF last'.op = "submit"
           THEN errors' = ExpectedErrors(fields)
           ELSE errors' = errors ]_vars

C16_Witness ==
    /\ last.op = "submit"
    /\ errors # NoErrors
    /\ DOMAIN errors = {"name", "email", "phone", "mileage"}
    /\ requests = <<>>

\* C17: a submit step with valid values sends exactly one request, a submit
\* step with invalid values sends none, the settling of a response consumes
\* one outstanding request and sends none, and no other step sends one.
C17_OneRequestPerValidSubmit ==
    [][ CASE last'.op = "submit" ->
                 IF AllValid(fields)
                 THEN requests' = Append(requests, requests'[Len(requests')])
                 ELSE requests' = requests
          [] last'.op = "settle" ->
                 /\ Len(requests') = Len(requests) - 1
                 /\ \A k \in 1..Len(requests') : \E j \in 1..Len(requests) :
                        requests'[k] = requests[j]
          [] OTHER -> requests' = requests ]_vars

C17_Witness ==
    /\ last.op = "settle"
    /\ ReportsFailure(last.arg)
    /\ requests = <<>>
    /\ ~isSubmitting

\* C18: the notification of a failed submission is the same whatever made it
\* fail: after the settling of any response or rejection, every destructive
\* notification has the one fixed title and the one fixed description, and
\* neither is, or contains, the error that was caught.
C18_FailureToastIsGeneric ==
    last.op = "settle" =>
        \A k \in 1..Len(toasts) :
            toasts[k].variant = "destructive" =>
                /\ toasts[k].title = "Greska pri slanju"
                /\ toasts[k].description =
                       <<"Molimo pokusajte ponovno ili nas nazovite direktno.">>
                /\ toasts[k].description # ThrownError(variant, last.arg)

C18_Witness ==
    /\ last.op = "settle"
    /\ variant = "staged"
    /\ last.arg.kind = "response" /\ last.arg.body = "success_false"
    /\ Len(toasts) = 1
    /\ toasts[1].variant = "destructive"

\* C19: a request is outstanding exactly when isSubmitting is true, and the
\* submit control is disabled exactly when isSubmitting is true.
C19_FlagWhileInFlight ==
    /\ requests # <<>> => isSubmitting
    /\ isSubmitting => requests # <<>>
    /\ ~SubmitEnabled <=> isSubmitting

C19_Witness ==
    /\ requests # <<>>
    /\ isSubmitting
    /\ ~SubmitEnabled
    /\ last.op = "removeFile"

\* C20 (as claimed): in every request sent, the value of each of the six
\* validated fields in the body satisfies the rule of that field.
C20_BodyMeetsRules ==
    \A i \in 1..Len(requests) :
        \A f \in RequiredNames : MeetsRule(f, requests[i].body[f])

\* C21: a submit step with valid values sends, in the uploading component, a
\* request whose attachment entries are exactly the files staged at that
\* moment, in staged order, under the names attachment_0 .. attachment_{n-1},
\* and in the staged-only component a request with no attachment entry; a
\* submit step with invalid values sends nothing, so no attachment either.
C21_AttachmentsOfRequest ==
    [][ last'.op = "submit" =>
          IF AllValid(fields)
          THEN /\ Len(requests') = Len(requests) + 1
               /\ LET sent == requests'[Len(requests')].attachments
                  IN  IF variant = "upload"
                      THEN /\ Len(sent) = Len(uploadedFiles)
                           /\ \A k \in 1..Len(sent) :
                                 /\ sent[k].name = <<"attachment_", k - 1>>
                                 /\ sent[k].file = uploadedFiles[k]
                      ELSE sent = <<>>
          ELSE requests' = requests ]_vars

C21_Witness ==
    /\ variant = "upload"
    /\ last.op = "submit"
    /\ Len(requests) = 1
    /\ Len(requests[1].attachments) = 2
    /\ requests[1].attachments[2] = [name |-> <<"attachment_", 1>>, file |-> "a.jpg"]

\* C22 (as claimed): the two components show the same notifications for the
\* same response. The steps other than the settling of a response do not
\* read which component runs, except to build the request; so the claim is
\* that after the settling of any response the success notification has been
\* shown exactly when the test of the first component and the test of the
\* second component both send that response to the success branch.
C22_VariantsAgree ==
    last.op = "settle" =>
        \A v \in {"staged", "upload"} :
            (\E k \in 1..Len(toasts) : toasts[k] = SuccessToast)
                <=> TakesSuccessBranch(v, last.arg)

\* C23: in the uploading component, every file that the settling of a
\* response on the success branch takes off the staged list was among the
\* attachments of the request answered: a file staged while the request was
\* outstanding is not discarded without having been sent.
C23_ClearedFilesWereSent ==
    [][ (variant = "upload" /\ last'.op = "settle"
            /\ TakesSuccessBranch(variant, last'.arg)) =>
          \A file \in File :
              Occurrences(file, uploadedFiles') < Occurrences(file, uploadedFiles) =>
                  \E j \in 1..Len(last'.sent.attachments) :
                      last'.sent.attachments[j].file = file ]_vars

C23_Witness ==
    /\ variant = "upload"
    /\ last.op = "settle"
    /\ TakesSuccessBranch(variant, last.arg)
    /\ \E k \in 1..Len(uploadedFiles) :
          \A j \in 1..Len(last.sent.attachments) :
              last.sent.attachments[j].file # uploadedFiles[k]

====
